---- MODULE Spec2Model ----
(***************************************************************************)
(* Realtime synchronisation layer of the collaborative whiteboard: the     *)
(* Socket.IO server of api/src/index.js (handshake middleware, page        *)
(* switching, mutation handlers, board event log) as a state machine.      *)
(***************************************************************************)
EXTENDS Integers, Sequences, FiniteSets, TLC

\* ------------------------------------------------------------------------
\* Values
\* ------------------------------------------------------------------------

\* A missing (undefined) or empty-string field: every falsy value of the code.
None == "none"

\* The sockets that may connect to the server.
Sockets == {"s1", "s2", "s3"}

\* Rows of the users table.
Users == {"u1", "u2"}

\* Rows of the boards table and their ownerId column.
Boards == {"B1", "B2"}

BoardOwner == [b \in Boards |-> IF b = "B1" THEN "u1" ELSE "u2"]

\* Rows of the memberships table: (userId, boardId) -> role, unique per pair.
Memberships == [userId : {"u2"}, boardId : {"B1"}, role : {"VIEWER"}]

\* Rows of the board_pages table and their boardId column.
Pages == {"P1", "P2", "P3"}

PageBoard == [p \in Pages |-> IF p = "P3" THEN "B2" ELSE "B1"]

\* Rows of the share_links table, keyed by the unique token column.
ShareLinks ==
    [k \in {"k_ro", "k_rw"} |->
        IF k = "k_ro" THEN [boardId |-> "B1", canEdit |-> FALSE]
                      ELSE [boardId |-> "B2", canEdit |-> TRUE]]

\* Bearer credentials a client may present.  jwt.verify either returns the
\* decoded payload (its userId) or throws.
Tokens == {"t_u1", "t_u2", "t_gone", "t_bad"}

TokenVerifies(t) == t \in {"t_u1", "t_u2", "t_gone"}

DecodedUserId(t) ==
    CASE t = "t_u1" -> "u1"
      [] t = "t_u2" -> "u2"
      [] OTHER      -> "u9"

\* socket.handshake.auth values a client may send.
AuthInputs ==
    [token      : Tokens \cup {None},
     shareToken : {"k_ro", "k_rw", "k_bogus", None},
     boardId    : Boards \cup {"B9", None},
     pageId     : Pages \cup {None}]

\* Room keys `board:${id}` and `page:${id}`.
BoardRoom(b) == <<"board", b>>
PageRoom(p) == <<"page", p>>

\* socket.data of a socket that is not connected.
NoData == [open |-> FALSE, userId |-> None, boardId |-> None,
           pageId |-> None, canEdit |-> FALSE]

\* ------------------------------------------------------------------------
\* State
\* ------------------------------------------------------------------------
VARIABLES
    socketData,   \* socket.data of every socket, with its connection status
    auth,         \* socket.handshake.auth credentials of every open socket
    rooms,        \* adapter room membership: the rooms each socket is in
    boardEvents,  \* the board_events table, in insertion order
    tasks,        \* suspended async handlers (awaiting the insert, or resumed)
    emitted,      \* events delivered to peers by the last step
    errors,       \* error packets sent to a client by the last step
    lastSwitch,   \* the page:switch the last step carried out, if it was one:
                  \* its data, its socket.leave and socket.join calls, and
                  \* whether the step before carried out the same page:switch
    perm,         \* one permission question (a user and a board with its
                  \* memberships) and the answers of the socket handshake
                  \* and of the REST routes to it
    cursors,      \* remoteCursorsRef of the web client of every socket: the
                  \* socket ids it shows a cursor for, each with the seconds
                  \* since its lastSeen
    boardPages,   \* the board_pages rows of one board: id and index
    requests,     \* the REST requests for that board's pages that are being
                  \* served, each with its position and what it has read
    pageSeq,      \* the number of board_pages rows created so far
    manager,      \* the web client's SocketManager: the socket it refers to
                  \* and its currentPageId
    clientSockets \* the sockets the web client created with io(): whether
                  \* each is unused, live or closed, the auth it connects
                  \* with, and the page:switch packets it has emitted that
                  \* the server has not handled yet

\* The state outside the socket server's handlers.
apiVars == <<perm, cursors, boardPages, requests, pageSeq, manager,
            clientSockets>>

\* The state of the REST page routes.
pageVars == <<boardPages, requests, pageSeq>>

\* The state of the web client's SocketManager.
clientVars == <<manager, clientSockets>>

\* What the permission resolution, the presence steps, the page routes and
\* the SocketManager each leave alone outside the socket server.
outsidePerm == <<cursors, pageVars, clientVars>>
outsidePresence == <<perm, pageVars, clientVars>>
outsidePages == <<perm, cursors, clientVars>>
outsideClient == <<perm, cursors, pageVars>>

\* The state of the socket server.
serverVars == <<socketData, auth, rooms, boardEvents, tasks, emitted, errors,
                lastSwitch>>

vars == <<socketData, auth, rooms, boardEvents, tasks, emitted, errors,
          lastSwitch, perm, cursors, boardPages, requests, pageSeq, manager,
          clientSockets>>

\* No page:switch was carried out by the last step.
NoSwitch == [sock |-> None, boardId |-> None, pageId |-> None, calls |-> 0,
             repeat |-> FALSE]

NoAuth == [token |-> None, shareToken |-> None, boardId |-> None]

\* The enum MembershipRole.
MembershipRoles == {"OWNER", "EDITOR", "VIEWER"}

\* canEdit not computed yet.
Unresolved == [done |-> FALSE, canEdit |-> FALSE]

\* No permission question is asked.
NoPerm == [userId |-> None, ownerId |-> None,
           memberships |-> [u \in Users |-> None],
           socket |-> Unresolved, rest |-> Unresolved]

\* The REST requests served at a time.
Requests == {"r1", "r2"}

\* A request slot: free before a request and after its response.
IdleRequest == [pc |-> "idle", pageId |-> 0, index |-> 0, status |-> 0]

\* A board without pages (as POST /api/boards leaves it), no request.
NoPages ==
    /\ boardPages = {}
    /\ requests = [r \in Requests |-> IdleRequest]
    /\ pageSeq = 0

\* A client socket: never created, live (created by io() and not closed:
\* connecting, connected or reconnecting) or closed by socket.disconnect().
NoClientSocket ==
    [state |-> "unused", auth |-> [token |-> None, shareToken |-> None,
                                   boardId |-> None, pageId |-> None],
     sendBuffer |-> <<>>]

\* private socket = null; private currentPageId = null; no io() call yet.
NoClient ==
    /\ manager = [socket |-> None, currentPageId |-> None]
    /\ clientSockets = [k \in Sockets |-> NoClientSocket]

\* new Map(): no remote cursor is shown by any client.
NoCursors == [r \in Sockets |-> [x \in {} |-> 0]]

\* The socket server after construction: no connection, an empty log.
ServerIdle ==
    /\ socketData = [s \in Sockets |-> NoData]
    /\ auth = [s \in Sockets |-> NoAuth]
    /\ rooms = [s \in Sockets |-> {}]
    /\ boardEvents = <<>>
    /\ tasks = {}
    /\ emitted = {}
    /\ errors = {}
    /\ lastSwitch = NoSwitch

Init ==
    /\ socketData = [s \in Sockets |-> NoData]
    /\ auth = [s \in Sockets |-> NoAuth]
    /\ rooms = [s \in Sockets |-> {}]
    /\ boardEvents = <<>>
    /\ tasks = {}
    /\ emitted = {}
    /\ errors = {}
    /\ lastSwitch = NoSwitch
    /\ perm = NoPerm
    /\ cursors = NoCursors
    /\ NoPages
    /\ NoClient

\* ------------------------------------------------------------------------
\* Handshake middleware (io.use)
\* ------------------------------------------------------------------------

Role(u, b) ==
    IF \E m \in Memberships : m.userId = u /\ m.boardId = b
    THEN (CHOOSE m \in Memberships : m.userId = u /\ m.boardId = b).role
    ELSE None

\* canEdit = isOwner || membershipRole === 'OWNER' || membershipRole === 'EDITOR'
CanEdit(isOwner, membershipRole) ==
    isOwner \/ membershipRole = "OWNER" \/ membershipRole = "EDITOR"

Reject(msg) == [ok |-> FALSE, err |-> msg, userId |-> None, canEdit |-> FALSE]
Accept(u, ce) == [ok |-> TRUE, err |-> None, userId |-> u, canEdit |-> ce]

BearerPathMembersOnly(a, dbUp) ==
    IF ~TokenVerifies(a.token) \/ ~dbUp THEN Reject("Authentication failed")
    ELSE IF DecodedUserId(a.token) \notin Users THEN Reject("User not found")
    ELSE IF a.boardId \notin Boards THEN Reject("Board not found")
    ELSE IF /\ BoardOwner[a.boardId] # DecodedUserId(a.token)
            /\ Role(DecodedUserId(a.token), a.boardId) = None
         THEN Reject("Access denied")
    ELSE Accept(DecodedUserId(a.token),
                CanEdit(BoardOwner[a.boardId] = DecodedUserId(a.token),
                        Role(DecodedUserId(a.token), a.boardId)))

BearerPathBoardFirst(a, dbUp) ==
    IF ~TokenVerifies(a.token) \/ ~dbUp THEN Reject("Authentication failed")
    ELSE IF a.boardId \notin Boards THEN Reject("Board not found")
    ELSE IF DecodedUserId(a.token) \notin Users THEN Reject("User not found")
    ELSE Accept(DecodedUserId(a.token),
                CanEdit(BoardOwner[a.boardId] = DecodedUserId(a.token),
                        Role(DecodedUserId(a.token), a.boardId)))

\* The token branch: verify, look the user up, look the board up, resolve.
BearerPath(a, dbUp) ==
    IF ~TokenVerifies(a.token) \/ ~dbUp THEN Reject("Authentication failed")
    ELSE IF DecodedUserId(a.token) \notin Users THEN Reject("User not found")
    ELSE IF a.boardId \notin Boards THEN Reject("Board not found")
    ELSE Accept(DecodedUserId(a.token),
                CanEdit(BoardOwner[a.boardId] = DecodedUserId(a.token),
                        Role(DecodedUserId(a.token), a.boardId)))

SharePathGrantsEdit(a, dbUp) ==
    IF ~dbUp THEN Reject("Authentication failed")
    ELSE IF a.shareToken \notin DOMAIN ShareLinks
            \/ ShareLinks[a.shareToken].boardId # a.boardId
         THEN Reject("Invalid share token")
    ELSE Accept(None, TRUE)

SharePathAnyBoard(a, dbUp) ==
    IF ~dbUp THEN Reject("Authentication failed")
    ELSE IF a.shareToken \notin DOMAIN ShareLinks
         THEN Reject("Invalid share token")
    ELSE Accept(None, ShareLinks[a.shareToken].canEdit)

\* The shareToken branch: look the link up, compare its board.
SharePath(a, dbUp) ==
    IF ~dbUp THEN Reject("Authentication failed")
    ELSE IF a.shareToken \notin DOMAIN ShareLinks
            \/ ShareLinks[a.shareToken].boardId # a.boardId
         THEN Reject("Invalid share token")
    ELSE Accept(None, ShareLinks[a.shareToken].canEdit)

AuthenticateAnonymousViewer(a, dbUp) ==
    IF a.boardId = None THEN Reject("Board ID required")
    ELSE IF a.token # None THEN BearerPath(a, dbUp)
    ELSE IF a.shareToken # None THEN SharePath(a, dbUp)
    ELSE IF a.boardId \in Boards THEN Accept(None, FALSE)
    ELSE Reject("Authentication required")

\* The whole middleware; dbUp = FALSE is a lookup that throws.
Authenticate(a, dbUp) ==
    IF a.boardId = None THEN Reject("Board ID required")
    ELSE IF a.token # None THEN BearerPath(a, dbUp)
    ELSE IF a.shareToken # None THEN SharePath(a, dbUp)
    ELSE Reject("Authentication required")

\* next(new Error(msg)): the client gets a connect_error packet.
ConnectError(s, msg) == {[to |-> s, ev |-> "connect_error", msg |-> msg]}

HandshakeJoinsFirst(s, a, dbUp) ==
    /\ ~socketData[s].open
    /\ \A t \in tasks : t.sock # s
    /\ LET r == Authenticate(a, dbUp) IN
       IF r.ok
       THEN /\ socketData' = [socketData EXCEPT ![s] =
                    [open |-> TRUE, userId |-> r.userId, boardId |-> a.boardId,
                     pageId |-> a.pageId, canEdit |-> r.canEdit]]
            /\ auth' = [auth EXCEPT ![s] =
                    [token |-> a.token, shareToken |-> a.shareToken,
                     boardId |-> a.boardId]]
            /\ rooms' = [rooms EXCEPT ![s] =
                    {BoardRoom(a.boardId)}
                    \cup (IF a.pageId # None THEN {PageRoom(a.pageId)} ELSE {})]
            /\ errors' = {}
       ELSE /\ errors' = ConnectError(s, r.err)
            /\ rooms' = [rooms EXCEPT ![s] = {BoardRoom(a.boardId)}]
            /\ UNCHANGED <<socketData, auth>>
    /\ emitted' = {}
    /\ UNCHANGED <<boardEvents, tasks>>
    /\ lastSwitch' = NoSwitch
    /\ UNCHANGED apiVars

\* The middleware.  Its lookups read tables that no step changes, so it is
\* one step.  A socket name stands for one socket id: it is taken again only
\* when no handler of the connection that had it is still suspended.
Handshake(s, a, dbUp) ==
    /\ ~socketData[s].open
    /\ \A t \in tasks : t.sock # s
    /\ LET r == Authenticate(a, dbUp) IN
       IF r.ok
       THEN /\ socketData' = [socketData EXCEPT ![s] =
                    [open |-> TRUE, userId |-> r.userId, boardId |-> a.boardId,
                     pageId |-> a.pageId, canEdit |-> r.canEdit]]
            /\ auth' = [auth EXCEPT ![s] =
                    [token |-> a.token, shareToken |-> a.shareToken,
                     boardId |-> a.boardId]]
            /\ rooms' = [rooms EXCEPT ![s] =
                    {BoardRoom(a.boardId)}
                    \cup (IF a.pageId # None THEN {PageRoom(a.pageId)} ELSE {})]
            /\ errors' = {}
       ELSE /\ errors' = ConnectError(s, r.err)
            /\ UNCHANGED <<socketData, auth, rooms>>
    /\ emitted' = {}
    /\ UNCHANGED <<boardEvents, tasks>>
    /\ lastSwitch' = NoSwitch
    /\ UNCHANGED apiVars

\* The client goes away: the adapter removes the socket from every room.
Disconnect(s) ==
    /\ socketData[s].open
    /\ socketData' = [socketData EXCEPT ![s] = NoData]
    /\ auth' = [auth EXCEPT ![s] = NoAuth]
    /\ rooms' = [rooms EXCEPT ![s] = {}]
    /\ emitted' = {}
    /\ errors' = {}
    /\ UNCHANGED <<boardEvents, tasks>>
    /\ lastSwitch' = NoSwitch
    /\ UNCHANGED apiVars

\* ------------------------------------------------------------------------
\* page:switch
\* ------------------------------------------------------------------------

\* socket.emit('error', msg)
ErrorTo(s, msg) == {[to |-> s, ev |-> "error", msg |-> msg]}

SwitchInputs == [boardId : Boards \cup {None}, pageId : Pages \cup {None}]

\* The record of a page:switch carried out with the given number of calls.
Switched(s, d, calls) ==
    [sock |-> s, boardId |-> d.boardId, pageId |-> d.pageId, calls |-> calls,
     repeat |-> /\ lastSwitch.sock = s
                /\ lastSwitch.boardId = d.boardId
                /\ lastSwitch.pageId = d.pageId]

PageSwitchRebinds(s, d) ==
    /\ socketData[s].open
    /\ rooms' = [rooms EXCEPT ![s] =
            ((IF socketData[s].pageId # None
              THEN @ \ {PageRoom(socketData[s].pageId)}
              ELSE @) \cup {PageRoom(d.pageId)})]
    /\ socketData' = [socketData EXCEPT ![s].pageId = d.pageId,
                                        ![s].boardId = d.boardId]
    /\ errors' = {}
    /\ lastSwitch' = Switched(s, d, IF socketData[s].pageId # None THEN 2 ELSE 1)
    /\ emitted' = {}
    /\ UNCHANGED <<auth, boardEvents, tasks>>
    /\ UNCHANGED apiVars

PageSwitchNoBoardCheck(s, d) ==
    /\ socketData[s].open
    /\ rooms' = [rooms EXCEPT ![s] =
            ((IF socketData[s].pageId # None
              THEN @ \ {PageRoom(socketData[s].pageId)}
              ELSE @) \cup {PageRoom(d.pageId)})]
    /\ socketData' = [socketData EXCEPT ![s].pageId = d.pageId]
    /\ errors' = {}
    /\ lastSwitch' = Switched(s, d, IF socketData[s].pageId # None THEN 2 ELSE 1)
    /\ emitted' = {}
    /\ UNCHANGED <<auth, boardEvents, tasks>>
    /\ UNCHANGED apiVars

PageSwitchLeaveThenSkip(s, d) ==
    /\ socketData[s].open
    /\ IF socketData[s].boardId # d.boardId
       THEN /\ errors' = ErrorTo(s, "Access denied")
            /\ UNCHANGED <<socketData, rooms>>
            /\ lastSwitch' = NoSwitch
       ELSE IF socketData[s].pageId # None /\ socketData[s].pageId = d.pageId
       THEN /\ rooms' = [rooms EXCEPT ![s] = @ \ {PageRoom(d.pageId)}]
            /\ UNCHANGED socketData
            /\ errors' = {}
            /\ lastSwitch' = Switched(s, d, 1)
       ELSE /\ rooms' = [rooms EXCEPT ![s] =
                    ((IF socketData[s].pageId # None
                      THEN @ \ {PageRoom(socketData[s].pageId)}
                      ELSE @) \cup {PageRoom(d.pageId)})]
            /\ socketData' = [socketData EXCEPT ![s].pageId = d.pageId]
            /\ errors' = {}
            /\ lastSwitch' = Switched(s, d, IF socketData[s].pageId # None
                                            THEN 2 ELSE 1)
    /\ emitted' = {}
    /\ UNCHANGED <<auth, boardEvents, tasks>>
    /\ UNCHANGED apiVars

\* The page:switch handler: the board check, then leave, assign, join.
PageSwitchHandler(s, d) ==
    /\ socketData[s].open
    /\ IF socketData[s].boardId # d.boardId
       THEN /\ errors' = ErrorTo(s, "Access denied")
            /\ UNCHANGED <<socketData, rooms>>
            /\ lastSwitch' = NoSwitch
       ELSE /\ rooms' = [rooms EXCEPT ![s] =
                    ((IF socketData[s].pageId # None
                      THEN @ \ {PageRoom(socketData[s].pageId)}
                      ELSE @) \cup {PageRoom(d.pageId)})]
            /\ socketData' = [socketData EXCEPT ![s].pageId = d.pageId]
            /\ errors' = {}
            /\ lastSwitch' = Switched(s, d, IF socketData[s].pageId # None
                                            THEN 2 ELSE 1)
    /\ emitted' = {}
    /\ UNCHANGED <<auth, boardEvents, tasks>>

\* The handler run for a message of any client.
PageSwitch(s, d) ==
    /\ PageSwitchHandler(s, d)
    /\ UNCHANGED apiVars

\* ------------------------------------------------------------------------
\* Mutation messages
\* ------------------------------------------------------------------------

\* Largest number of board events (persisted or awaiting the insert).
MaxEvents == 1

ShapeEvents == {"shape:add", "shape:update", "shape:delete"}

\* Message payloads {boardId, pageId, ...rest}: for a page of board B1, or
\* with no page id; body stands for the rest (the shape, the settings, the
\* asset, or the wrapped legacy event).
MsgData == [boardId : {"B1"}, pageId : {"P1", None}, body : {"rect"}]

\* data.event of a canvas-event message: the wrapped event alone.
WrappedEvent(d) == [boardId |-> None, pageId |-> None, body |-> d.body]

\* event.type of the wrapped event.
EventType(d) == d.body

RecipientsWithSender(room, sender) == {r \in Sockets : room \in rooms[r]}

\* socket.to(room): every socket in the room at the call, except the sender.
Recipients(room, sender) == {r \in Sockets : room \in rooms[r]} \ {sender}

\* socket.to(room).emit(ev, data)
Broadcast(room, sender, ev, data) ==
    {[to |-> r, ev |-> ev, data |-> data] : r \in Recipients(room, sender)}

\* A handler suspended at `await prisma.boardEvent.create(...)`.
Suspended(s, ev, d) == [sock |-> s, ev |-> ev, data |-> d, pc |-> "insert"]

HasRoom(s, ev, d) ==
    /\ Suspended(s, ev, d) \notin tasks
    /\ [Suspended(s, ev, d) EXCEPT !.pc = "resumed"] \notin tasks
    /\ Cardinality(tasks) + Len(boardEvents) < MaxEvents

\* handleShapeEvent up to the await.
HandleShapeEvent(s, eventName, d) ==
    /\ socketData[s].open
    /\ IF ~socketData[s].canEdit
       THEN /\ errors' = ErrorTo(s, "Edit permission denied")
            /\ UNCHANGED tasks
       ELSE IF d.pageId = None
       THEN /\ errors' = ErrorTo(s, "Page ID required")
            /\ UNCHANGED tasks
       ELSE /\ HasRoom(s, eventName, d)
            /\ tasks' = tasks \cup {Suspended(s, eventName, d)}
            /\ errors' = {}
    /\ emitted' = {}
    /\ UNCHANGED <<socketData, auth, rooms, boardEvents>>
    /\ lastSwitch' = NoSwitch
    /\ UNCHANGED apiVars

PageSettingsUpdateNoPageCheck(s, d) ==
    /\ socketData[s].open
    /\ IF ~socketData[s].canEdit
       THEN /\ errors' = ErrorTo(s, "Edit permission denied")
            /\ emitted' = {}
       ELSE /\ emitted' = Broadcast(PageRoom(d.pageId), s,
                                    "page:settings:update", d)
            /\ errors' = {}
    /\ UNCHANGED <<socketData, auth, rooms, boardEvents, tasks>>
    /\ lastSwitch' = NoSwitch
    /\ UNCHANGED apiVars

\* page:settings:update: checked, then broadcast to the page room.
PageSettingsUpdate(s, d) ==
    /\ socketData[s].open
    /\ IF ~socketData[s].canEdit
       THEN /\ errors' = ErrorTo(s, "Edit permission denied")
            /\ emitted' = {}
       ELSE IF d.pageId = None
       THEN /\ errors' = ErrorTo(s, "Page ID required")
            /\ emitted' = {}
       ELSE /\ emitted' = Broadcast(PageRoom(d.pageId), s,
                                    "page:settings:update", d)
            /\ errors' = {}
    /\ UNCHANGED <<socketData, auth, rooms, boardEvents, tasks>>
    /\ lastSwitch' = NoSwitch
    /\ UNCHANGED apiVars

AssetAddUnchecked(s, d) ==
    /\ socketData[s].open
    /\ emitted' = Broadcast(BoardRoom(d.boardId), s, "asset:add", d)
    /\ errors' = {}
    /\ UNCHANGED <<socketData, auth, rooms, boardEvents, tasks>>
    /\ lastSwitch' = NoSwitch
    /\ UNCHANGED apiVars

\* asset:add: checked, then broadcast to the board room named by the payload.
AssetAdd(s, d) ==
    /\ socketData[s].open
    /\ IF ~socketData[s].canEdit
       THEN /\ errors' = ErrorTo(s, "Edit permission denied")
            /\ emitted' = {}
       ELSE /\ emitted' = Broadcast(BoardRoom(d.boardId), s, "asset:add", d)
            /\ errors' = {}
    /\ UNCHANGED <<socketData, auth, rooms, boardEvents, tasks>>
    /\ lastSwitch' = NoSwitch
    /\ UNCHANGED apiVars

\* canvas-event up to the await.
CanvasEvent(s, d) ==
    /\ socketData[s].open
    /\ IF ~socketData[s].canEdit
       THEN /\ errors' = ErrorTo(s, "Edit permission denied")
            /\ UNCHANGED tasks
       ELSE /\ HasRoom(s, "canvas-event", d)
            /\ tasks' = tasks \cup {Suspended(s, "canvas-event", d)}
            /\ errors' = {}
    /\ emitted' = {}
    /\ UNCHANGED <<socketData, auth, rooms, boardEvents>>
    /\ lastSwitch' = NoSwitch
    /\ UNCHANGED apiVars

\* The row prisma.boardEvent.create is asked to insert.
EventRow(t) ==
    IF t.ev = "canvas-event"
    THEN [boardId |-> t.data.boardId, pageId |-> t.data.pageId,
          type |-> EventType(t.data), payload |-> WrappedEvent(t.data)]
    ELSE [boardId |-> t.data.boardId, pageId |-> t.data.pageId,
          type |-> t.ev, payload |-> t.data]

\* Foreign keys of board_events: boardId -> boards, pageId -> board_pages.
ForeignKeysHold(row) ==
    /\ row.boardId \in Boards
    /\ row.pageId = None \/ row.pageId \in Pages

\* The insert commits and the handler is ready to resume.
InsertOk(t) ==
    /\ t \in tasks
    /\ t.pc = "insert"
    /\ ForeignKeysHold(EventRow(t))
    /\ boardEvents' = Append(boardEvents, EventRow(t))
    /\ tasks' = (tasks \ {t}) \cup {[t EXCEPT !.pc = "resumed"]}
    /\ emitted' = {}
    /\ errors' = {}
    /\ UNCHANGED <<socketData, auth, rooms>>
    /\ lastSwitch' = NoSwitch
    /\ UNCHANGED apiVars

\* The insert throws (constraint violation or database error).  Nothing
\* catches the rejection: the handler ends there and nothing is emitted.
InsertFail(t) ==
    /\ t \in tasks
    /\ t.pc = "insert"
    /\ tasks' = tasks \ {t}
    /\ emitted' = {}
    /\ errors' = {}
    /\ UNCHANGED <<socketData, auth, rooms, boardEvents>>
    /\ lastSwitch' = NoSwitch
    /\ UNCHANGED apiVars

\* The same, where the runtime ends the process on an unhandled rejection:
\* every connection closes and every suspended handler is gone.
InsertFailExit(t) ==
    /\ t \in tasks
    /\ t.pc = "insert"
    /\ tasks' = {}
    /\ socketData' = [s \in Sockets |-> NoData]
    /\ auth' = [s \in Sockets |-> NoAuth]
    /\ rooms' = [s \in Sockets |-> {}]
    /\ emitted' = {}
    /\ errors' = {}
    /\ UNCHANGED boardEvents
    /\ lastSwitch' = NoSwitch
    /\ UNCHANGED apiVars

TargetRoomPageOnly(t) == PageRoom(t.data.pageId)

\* The room the resumed handler broadcasts to.
TargetRoom(t) ==
    IF t.ev = "canvas-event" /\ t.data.pageId = None
    THEN BoardRoom(t.data.boardId)
    ELSE PageRoom(t.data.pageId)

\* What the resumed handler emits: the payload, or the wrapped event.
Outgoing(t) == IF t.ev = "canvas-event" THEN WrappedEvent(t.data) ELSE t.data

ResumeIfSenderOpen(t) ==
    /\ t \in tasks
    /\ t.pc = "resumed"
    /\ emitted' = IF socketData[t.sock].open
                  THEN Broadcast(TargetRoom(t), t.sock, t.ev, Outgoing(t))
                  ELSE {}
    /\ tasks' = tasks \ {t}
    /\ errors' = {}
    /\ UNCHANGED <<socketData, auth, rooms, boardEvents>>
    /\ lastSwitch' = NoSwitch
    /\ UNCHANGED apiVars

ResumeWithoutAwait(t) ==
    /\ t \in tasks
    /\ emitted' = Broadcast(TargetRoom(t), t.sock, t.ev, Outgoing(t))
    /\ tasks' = tasks \ {t}
    /\ errors' = {}
    /\ UNCHANGED <<socketData, auth, rooms, boardEvents>>
    /\ lastSwitch' = NoSwitch
    /\ UNCHANGED apiVars

\* The handler resumes after the await and broadcasts.
Resume(t) ==
    /\ t \in tasks
    /\ t.pc = "resumed"
    /\ emitted' = Broadcast(TargetRoom(t), t.sock, t.ev, Outgoing(t))
    /\ tasks' = tasks \ {t}
    /\ errors' = {}
    /\ UNCHANGED <<socketData, auth, rooms, boardEvents>>
    /\ lastSwitch' = NoSwitch
    /\ UNCHANGED apiVars

\* ------------------------------------------------------------------------
\* Specifications
\* ------------------------------------------------------------------------

\* Handshakes of the clients of board B1: its owner (two sessions, s1 and
\* s2) and the holder of a read-only share link (s3), on any page.
BoardClients(s) ==
    {a \in AuthInputs :
        /\ a.boardId = "B1"
        /\ a.pageId \in {"P1", "P2", None}
        /\ \/ a.token = "t_u1" /\ a.shareToken = None /\ s \in {"s1", "s2"}
           \/ a.token = None /\ a.shareToken = "k_ro" /\ s = "s3"}

\* Every handler that can be suspended at the insert or resumed after it.
Handlers == [sock : Sockets, ev : ShapeEvents \cup {"canvas-event"},
             data : MsgData, pc : {"insert", "resumed"}]

Next ==
    \/ \E s \in Sockets : \E a \in BoardClients(s) : Handshake(s, a, TRUE)
    \/ \E s \in Sockets : Disconnect(s)
    \/ \E s \in Sockets, e \in ShapeEvents, d \in MsgData :
            HandleShapeEvent(s, e, d)
    \/ \E s \in Sockets, d \in MsgData : PageSettingsUpdate(s, d)
    \/ \E s \in Sockets, d \in MsgData : AssetAdd(s, d)
    \/ \E s \in Sockets, d \in MsgData : CanvasEvent(s, d)
    \/ \E t \in Handlers : InsertOk(t)
    \/ \E t \in Handlers : InsertFail(t)
    \/ \E t \in Handlers : InsertFailExit(t)
    \/ \E t \in Handlers : Resume(t)

Spec == Init /\ [][Next]_vars

\* One connection, every handshake and every page switch.
AuthSocket == "s1"

NextAuth ==
    \/ \E a \in AuthInputs, dbUp \in BOOLEAN : Handshake(AuthSocket, a, dbUp)
    \/ Disconnect(AuthSocket)
    \/ \E d \in SwitchInputs : PageSwitch(AuthSocket, d)

SpecAuth == Init /\ [][NextAuth]_vars

\* Board B2 with its owner u2 (socket s2) and user u1, who neither owns it
\* nor has a membership row for it (socket s1), on page P3 or on no page.
GuestSockets == {"s1", "s2"}

GuestClients(s) ==
    {a \in AuthInputs :
        /\ a.boardId = "B2"
        /\ a.pageId \in {"P3", None}
        /\ a.shareToken = None
        /\ \/ a.token = "t_u1" /\ s = "s1"
           \/ a.token = "t_u2" /\ s = "s2"}

GuestMsgData == [boardId : {"B2"}, pageId : {"P3", None}, body : {"rect"}]

GuestHandlers == [sock : GuestSockets, ev : ShapeEvents \cup {"canvas-event"},
                  data : GuestMsgData, pc : {"insert", "resumed"}]

NextGuest ==
    \/ \E s \in GuestSockets : \E a \in GuestClients(s) : Handshake(s, a, TRUE)
    \/ \E s \in GuestSockets : Disconnect(s)
    \/ \E s \in GuestSockets, e \in ShapeEvents, d \in GuestMsgData :
            HandleShapeEvent(s, e, d)
    \/ \E s \in GuestSockets, d \in GuestMsgData : PageSettingsUpdate(s, d)
    \/ \E s \in GuestSockets, d \in GuestMsgData : AssetAdd(s, d)
    \/ \E s \in GuestSockets, d \in GuestMsgData : CanvasEvent(s, d)
    \/ \E t \in GuestHandlers : InsertOk(t)
    \/ \E t \in GuestHandlers : InsertFail(t)
    \/ \E t \in GuestHandlers : InsertFailExit(t)
    \/ \E t \in GuestHandlers : Resume(t)

SpecGuest == Init /\ [][NextGuest]_vars

\* ------------------------------------------------------------------------
\* Permission resolution: the socket handshake and the REST routes
\* ------------------------------------------------------------------------

\* A user, and a board row with its memberships included: its ownerId and,
\* for every user, the role of the user's membership row or None without one.
PermInputs == [userId : Users, ownerId : Users,
               memberships : [Users -> MembershipRoles \cup {None}]]

InitPerm ==
    /\ socketData = [s \in Sockets |-> NoData]
    /\ auth = [s \in Sockets |-> NoAuth]
    /\ rooms = [s \in Sockets |-> {}]
    /\ boardEvents = <<>>
    /\ tasks = {}
    /\ emitted = {}
    /\ errors = {}
    /\ lastSwitch = NoSwitch
    /\ \E i \in PermInputs :
          perm = [userId |-> i.userId, ownerId |-> i.ownerId,
                  memberships |-> i.memberships,
                  socket |-> Unresolved, rest |-> Unresolved]
    /\ cursors = NoCursors
    /\ NoPages
    /\ NoClient

RestCanEditOwnerOnly(isOwner, membershipRole) ==
    isOwner \/ membershipRole = "OWNER"

\* REST routes: canEdit = isOwner || membershipRole === 'OWNER' ||
\* membershipRole === 'EDITOR'
RestCanEdit(isOwner, membershipRole) ==
    isOwner \/ membershipRole = "OWNER" \/ membershipRole = "EDITOR"

\* membership?.role of the user's membership found in board.memberships.
MembershipRole(memberships, userId) == memberships[userId]

\* The handshake middleware resolves the edit capability.
SocketResolve ==
    /\ ~perm.socket.done
    /\ LET isOwner == perm.ownerId = perm.userId
           membershipRole == MembershipRole(perm.memberships, perm.userId)
       IN perm' = [perm EXCEPT !.socket =
                      [done |-> TRUE,
                       canEdit |-> CanEdit(isOwner, membershipRole)]]
    /\ UNCHANGED <<socketData, auth, rooms, boardEvents, tasks, emitted,
                   errors, lastSwitch>>
    /\ UNCHANGED outsidePerm

\* POST /:id/events resolves the edit capability.
RestResolve ==
    /\ ~perm.rest.done
    /\ LET isOwner == perm.ownerId = perm.userId
           membershipRole == MembershipRole(perm.memberships, perm.userId)
       IN perm' = [perm EXCEPT !.rest =
                      [done |-> TRUE,
                       canEdit |-> RestCanEdit(isOwner, membershipRole)]]
    /\ UNCHANGED <<socketData, auth, rooms, boardEvents, tasks, emitted,
                   errors, lastSwitch>>
    /\ UNCHANGED outsidePerm

NextPerm == SocketResolve \/ RestResolve

SpecPerm == InitPerm /\ [][NextPerm]_vars

\* ------------------------------------------------------------------------
\* Presence: the presence:cursor handler and the clients' cursor cleanup
\* ------------------------------------------------------------------------

\* Largest age, in seconds, a remote cursor reaches before it is swept.
MaxAge == 4

\* const staleThreshold = 3000, in seconds.
StaleThreshold == 3

\* setInterval(..., 1000), in seconds.
SweepInterval == 1

\* socket.data.userName: user.name || user.email, or 'Anonymous User'.
UserName(s) ==
    IF socketData[s].userId = None THEN "Anonymous User"
    ELSE socketData[s].userId

\* presence:cursor payloads {pageId, x, y}; body stands for the position.
CursorData == [pageId : {"P1", "P2", None}, body : {"xy"}]

\* {...data, socketId: socket.id, userName: socket.data.userName}
CursorMessage(s, d) ==
    [pageId |-> d.pageId, body |-> d.body, socketId |-> s,
     userName |-> UserName(s)]

\* updateRemoteCursor: the cursor of socketId is created or moved and its
\* lastSeen becomes now.
ShowCursor(shown, socketId) ==
    [x \in DOMAIN shown \cup {socketId} |->
        IF x = socketId THEN 0 ELSE shown[x]]

\* The presence:cursor handler, and handleCursorMove of every client that is
\* sent the message (each shows the page whose room it is in).
PresenceCursor(s, d) ==
    /\ socketData[s].open
    /\ IF d.pageId = None
       THEN /\ emitted' = {}
            /\ UNCHANGED cursors
       ELSE /\ emitted' = Broadcast(PageRoom(d.pageId), s, "presence:cursor",
                                    CursorMessage(s, d))
            /\ cursors' = [r \in Sockets |->
                    IF r \in Recipients(PageRoom(d.pageId), s)
                    THEN ShowCursor(cursors[r], s)
                    ELSE cursors[r]]
    /\ errors' = {}
    /\ UNCHANGED <<socketData, auth, rooms, boardEvents, tasks>>
    /\ lastSwitch' = NoSwitch
    /\ UNCHANGED outsidePresence

\* One sweep interval passes: every shown cursor is that much older.
Tick ==
    /\ \E r \in Sockets : DOMAIN cursors[r] # {}
    /\ \A r \in Sockets : \A x \in DOMAIN cursors[r] : cursors[r][x] < MaxAge
    /\ cursors' = [r \in Sockets |->
            [x \in DOMAIN cursors[r] |-> cursors[r][x] + SweepInterval]]
    /\ emitted' = {}
    /\ errors' = {}
    /\ UNCHANGED <<socketData, auth, rooms, boardEvents, tasks>>
    /\ lastSwitch' = NoSwitch
    /\ UNCHANGED outsidePresence

\* The cursors of a client that its cleanup removes: now - lastSeen > threshold.
Stale(r) == {x \in DOMAIN cursors[r] : cursors[r][x] > StaleThreshold}

\* The cleanup interval of the client of socket r: stale cursors are taken
\* off its canvas and out of its map; nothing is sent.
Sweep(r) ==
    /\ cursors' = [cursors EXCEPT ![r] =
            [x \in DOMAIN cursors[r] \ Stale(r) |-> cursors[r][x]]]
    /\ emitted' = {}
    /\ errors' = {}
    /\ UNCHANGED <<socketData, auth, rooms, boardEvents, tasks>>
    /\ lastSwitch' = NoSwitch
    /\ UNCHANGED outsidePresence

\* Two sessions of the owner of board B1, each on page P1 or P2.
PresenceSockets == {"s1", "s2"}

PresenceClients ==
    {a \in AuthInputs :
        /\ a.boardId = "B1"
        /\ a.pageId \in {"P1", "P2"}
        /\ a.token = "t_u1" /\ a.shareToken = None}

NextPresence ==
    \/ \E s \in PresenceSockets : \E a \in PresenceClients :
            Handshake(s, a, TRUE)
    \/ \E s \in PresenceSockets : Disconnect(s)
    \/ \E s \in PresenceSockets, d \in CursorData : PresenceCursor(s, d)
    \/ Tick
    \/ \E r \in PresenceSockets : Sweep(r)

SpecPresence == Init /\ [][NextPresence]_vars

\* ------------------------------------------------------------------------
\* REST routes of a board's pages
\* ------------------------------------------------------------------------

\* Largest number of board_pages rows created in a run.
MaxPages == 2

\* The board whose pages the requests are for.
PagesBoard == "B1"

\* The slot can take a new request.
Free(r) == requests[r].pc \in {"idle", "done"}

\* res.status(status): the request is answered.
Respond(r, status) ==
    requests' = [requests EXCEPT ![r] =
                    [IdleRequest EXCEPT !.pc = "done", !.status = status]]

\* canAccess = isOwner || !!membership
CanAccess(u, b) == BoardOwner[b] = u \/ Role(u, b) # None

\* GET /:id/pages up to the answer of findMany: the pages are returned, or
\* none exists and the default page is about to be created.
ListFind(r, u) ==
    /\ Free(r)
    /\ IF ~CanAccess(u, PagesBoard) THEN Respond(r, 404)
       ELSE IF boardPages = {}
       THEN requests' = [requests EXCEPT ![r] =
                            [IdleRequest EXCEPT !.pc = "default"]]
       ELSE Respond(r, 200)
    /\ UNCHANGED <<boardPages, pageSeq>>
    /\ UNCHANGED serverVars
    /\ UNCHANGED outsidePages

\* GET /:id/pages from the create of the default page (index 0) on.
ListCreate(r) ==
    /\ requests[r].pc = "default"
    /\ pageSeq < MaxPages
    /\ boardPages' = boardPages \cup {[id |-> pageSeq + 1, index |-> 0]}
    /\ pageSeq' = pageSeq + 1
    /\ Respond(r, 200)
    /\ UNCHANGED serverVars
    /\ UNCHANGED outsidePages

\* (lastPage?.index ?? -1) + 1
NextIndex ==
    IF boardPages = {} THEN 0
    ELSE (CHOOSE p \in boardPages :
              \A q \in boardPages : q.index <= p.index).index + 1

\* POST /:id/pages without an index, up to the answer of findFirst.
CreateFind(r, u) ==
    /\ Free(r)
    /\ IF ~RestCanEdit(BoardOwner[PagesBoard] = u, Role(u, PagesBoard))
       THEN Respond(r, 403)
       ELSE requests' = [requests EXCEPT ![r] =
                [IdleRequest EXCEPT !.pc = "indexed", !.index = NextIndex]]
    /\ UNCHANGED <<boardPages, pageSeq>>
    /\ UNCHANGED serverVars
    /\ UNCHANGED outsidePages

\* POST /:id/pages from the create on.
CreateCommit(r) ==
    /\ requests[r].pc = "indexed"
    /\ pageSeq < MaxPages
    /\ boardPages' = boardPages \cup
            {[id |-> pageSeq + 1, index |-> requests[r].index]}
    /\ pageSeq' = pageSeq + 1
    /\ Respond(r, 201)
    /\ UNCHANGED serverVars
    /\ UNCHANGED outsidePages

\* DELETE /:id/pages/:pageId up to the answer of count.
DeleteCount(r, u, p) ==
    /\ Free(r)
    /\ IF ~RestCanEdit(BoardOwner[PagesBoard] = u, Role(u, PagesBoard))
       THEN Respond(r, 403)
       ELSE IF Cardinality(boardPages) <= 1
       THEN Respond(r, 400)
       ELSE requests' = [requests EXCEPT ![r] =
                [IdleRequest EXCEPT !.pc = "counted", !.pageId = p]]
    /\ UNCHANGED <<boardPages, pageSeq>>
    /\ UNCHANGED serverVars
    /\ UNCHANGED outsidePages

\* DELETE /:id/pages/:pageId from the delete on: the row goes, or there is
\* no such row and the delete throws.
DeleteCommit(r) ==
    /\ requests[r].pc = "counted"
    /\ IF \E p \in boardPages : p.id = requests[r].pageId
       THEN /\ boardPages' = {p \in boardPages : p.id # requests[r].pageId}
            /\ Respond(r, 204)
       ELSE /\ UNCHANGED boardPages
            /\ Respond(r, 500)
    /\ UNCHANGED pageSeq
    /\ UNCHANGED serverVars
    /\ UNCHANGED outsidePages

NextPages ==
    \/ \E r \in Requests, u \in Users : ListFind(r, u)
    \/ \E r \in Requests : ListCreate(r)
    \/ \E r \in Requests, u \in Users : CreateFind(r, u)
    \/ \E r \in Requests : CreateCommit(r)
    \/ \E r \in Requests, u \in Users, p \in 1..MaxPages : DeleteCount(r, u, p)
    \/ \E r \in Requests : DeleteCommit(r)

SpecPages == Init /\ [][NextPages]_vars

\* The owner of board B1 (socket s1) and the owner of board B2 (socket s2),
\* each on a page of its own board, and messages that name either board and
\* a page of either board.
CrossSockets == {"s1", "s2"}

CrossClients(s) ==
    {a \in AuthInputs :
        /\ a.shareToken = None
        /\ \/ s = "s1" /\ a.token = "t_u1" /\ a.boardId = "B1" /\ a.pageId = "P1"
           \/ s = "s2" /\ a.token = "t_u2" /\ a.boardId = "B2" /\ a.pageId = "P3"}

CrossMsgData == [boardId : {"B1", "B2"}, pageId : {"P1", "P3"}, body : {"rect"}]

CrossSwitches == [boardId : {"B1", "B2"}, pageId : {"P1", "P3"}]

CrossHandlers == [sock : CrossSockets, ev : {"shape:add", "canvas-event"},
                  data : CrossMsgData, pc : {"insert", "resumed"}]

NextCross ==
    \/ \E s \in CrossSockets : \E a \in CrossClients(s) : Handshake(s, a, TRUE)
    \/ \E s \in CrossSockets : Disconnect(s)
    \/ \E s \in CrossSockets, d \in CrossSwitches : PageSwitch(s, d)
    \/ \E s \in CrossSockets, d \in CrossMsgData :
            HandleShapeEvent(s, "shape:add", d)
    \/ \E s \in CrossSockets, d \in CrossMsgData : PageSettingsUpdate(s, d)
    \/ \E s \in CrossSockets, d \in CrossMsgData : AssetAdd(s, d)
    \/ \E s \in CrossSockets, d \in CrossMsgData : CanvasEvent(s, d)
    \/ \E t \in CrossHandlers : InsertOk(t)
    \/ \E t \in CrossHandlers : InsertFail(t)
    \/ \E t \in CrossHandlers : InsertFailExit(t)
    \/ \E t \in CrossHandlers : Resume(t)

SpecCross == Init /\ [][NextCross]_vars

\* ------------------------------------------------------------------------
\* Two shape events in flight
\* ------------------------------------------------------------------------

\* socket.data, auth and rooms as an accepted handshake with auth a leaves them.
DataAfter(a) ==
    [open |-> TRUE, userId |-> Authenticate(a, TRUE).userId,
     boardId |-> a.boardId, pageId |-> a.pageId,
     canEdit |-> Authenticate(a, TRUE).canEdit]

AuthAfter(a) ==
    [token |-> a.token, shareToken |-> a.shareToken, boardId |-> a.boardId]

RoomsAfter(a) ==
    {BoardRoom(a.boardId)}
    \cup (IF a.pageId # None THEN {PageRoom(a.pageId)} ELSE {})

\* The handshakes of the three connections: two sessions of the owner of B1
\* and the holder of its read-only link, all on page P1.
OrderClients ==
    [s \in Sockets |->
        IF s = "s3"
        THEN [token |-> None, shareToken |-> "k_ro", boardId |-> "B1",
              pageId |-> "P1"]
        ELSE [token |-> "t_u1", shareToken |-> None, boardId |-> "B1",
              pageId |-> "P1"]]

\* The payload of both shape events.
OrderData == [boardId |-> "B1", pageId |-> "P1", body |-> "rect"]

\* The three connections are open; s1 has sent shape:add and then s1 or s2
\* has sent shape:update for the same page, and both handlers are suspended
\* at their insert.
InitOrder ==
    /\ socketData = [s \in Sockets |-> DataAfter(OrderClients[s])]
    /\ auth = [s \in Sockets |-> AuthAfter(OrderClients[s])]
    /\ rooms = [s \in Sockets |-> RoomsAfter(OrderClients[s])]
    /\ boardEvents = <<>>
    /\ \E second \in {"s1", "s2"} :
          tasks = {Suspended("s1", "shape:add", OrderData),
                   Suspended(second, "shape:update", OrderData)}
    /\ emitted = {}
    /\ errors = {}
    /\ lastSwitch = NoSwitch
    /\ perm = NoPerm
    /\ cursors = NoCursors
    /\ NoPages
    /\ NoClient

OrderHandlers == [sock : {"s1", "s2"}, ev : {"shape:add", "shape:update"},
                  data : {OrderData}, pc : {"insert", "resumed"}]

NextOrder ==
    \/ \E t \in OrderHandlers : InsertOk(t)
    \/ \E t \in OrderHandlers : InsertFail(t)
    \/ \E t \in OrderHandlers : InsertFailExit(t)
    \/ \E t \in OrderHandlers : Resume(t)
    \/ \E s \in Sockets : Disconnect(s)
    \/ \E s \in Sockets, p \in {"P1", "P2"} :
            Handshake(s, [OrderClients[s] EXCEPT !.pageId = p], TRUE)

SpecOrder == InitOrder /\ [][NextOrder]_vars

\* ------------------------------------------------------------------------
\* The web client's SocketManager against the socket server
\* ------------------------------------------------------------------------

\* Largest number of page:switch packets of one socket not handled yet.
MaxSendBuffer == 2

\* The sockets the client creates with io() in a run.  A name stands for one
\* client socket and for its connection on the server.
ClientSockets == {"s1", "s2"}

\* connect(token, shareToken, boardId, pageId): the owner of B1 opens B1.
ConnectArgs ==
    [token : {"t_u1"}, shareToken : {None}, boardId : {"B1"},
     pageId : {"P1", None}]

\* switchPage(boardId, pageId)
SwitchPageArgs == [boardId : {"B1", "B2"}, pageId : {"P1", "P2"}]

\* socket.connected: the client socket is live and its handshake went through.
Connected(k) == clientSockets[k].state = "live" /\ socketData[k].open

\* connect(): the existing socket if it is connected; else a new io() socket
\* that replaces the reference, and currentPageId = pageId || null.
SocketManagerConnect(a) ==
    /\ IF manager.socket # None /\ Connected(manager.socket)
       THEN UNCHANGED clientVars
       ELSE \E k \in ClientSockets :
               /\ clientSockets[k].state = "unused"
               /\ clientSockets' = [clientSockets EXCEPT ![k] =
                       [state |-> "live", auth |-> a, sendBuffer |-> <<>>]]
               /\ manager' = [socket |-> k, currentPageId |-> a.pageId]
    /\ UNCHANGED serverVars
    /\ UNCHANGED outsideClient

\* switchPage(): emit page:switch and track the page, unless there is no
\* socket or the page is the tracked one.  An emit on a socket that is not
\* connected is buffered and sent when it connects.
SocketManagerSwitchPage(d) ==
    /\ IF manager.socket # None /\ manager.currentPageId # d.pageId
       THEN /\ Len(clientSockets[manager.socket].sendBuffer) < MaxSendBuffer
            /\ clientSockets' = [clientSockets EXCEPT
                    ![manager.socket].sendBuffer = Append(@, d)]
            /\ manager' = [manager EXCEPT !.currentPageId = d.pageId]
       ELSE UNCHANGED clientVars
    /\ UNCHANGED serverVars
    /\ UNCHANGED outsideClient

\* disconnect(): close the referenced socket, drop the reference, and
\* currentPageId = null.
SocketManagerDisconnect ==
    /\ IF manager.socket # None
       THEN clientSockets' = [clientSockets EXCEPT ![manager.socket] =
                [@ EXCEPT !.state = "closed", !.sendBuffer = <<>>]]
       ELSE UNCHANGED clientSockets
    /\ manager' = [socket |-> None, currentPageId |-> None]
    /\ UNCHANGED serverVars
    /\ UNCHANGED outsideClient

\* The handshake of a live client socket, with the auth given to io(): the
\* first connection, or the reconnection after the transport closed.
ClientHandshake(k) ==
    /\ clientSockets[k].state = "live"
    /\ Handshake(k, clientSockets[k].auth, TRUE)

\* The server handles the oldest page:switch packet of a connection.
ClientPageSwitch(k) ==
    /\ clientSockets[k].state = "live"
    /\ clientSockets[k].sendBuffer # <<>>
    /\ PageSwitchHandler(k, Head(clientSockets[k].sendBuffer))
    /\ clientSockets' = [clientSockets EXCEPT ![k].sendBuffer = Tail(@)]
    /\ UNCHANGED manager
    /\ UNCHANGED outsideClient

\* The connection ends on the server: the client closed the socket, or the
\* transport closed while no packet was on its way.
ClientGone(k) ==
    /\ clientSockets[k].sendBuffer = <<>>
    /\ Disconnect(k)

NextClient ==
    \/ \E a \in ConnectArgs : SocketManagerConnect(a)
    \/ \E d \in SwitchPageArgs : SocketManagerSwitchPage(d)
    \/ SocketManagerDisconnect
    \/ \E k \in ClientSockets : ClientHandshake(k)
    \/ \E k \in ClientSockets : ClientPageSwitch(k)
    \/ \E k \in ClientSockets : ClientGone(k)

SpecClient == Init /\ [][NextClient]_vars

\* ------------------------------------------------------------------------
\* Properties
\* ------------------------------------------------------------------------

\* Socket s handles one mutating message with payload d.
MutatingMessage(s, d) ==
    \/ \E e \in ShapeEvents : HandleShapeEvent(s, e, d)
    \/ PageSettingsUpdate(s, d)
    \/ AssetAdd(s, d)
    \/ CanvasEvent(s, d)

\* C1: a mutating message of any of the six types from a connection whose
\* canEdit is false persists nothing, suspends no handler that would persist
\* or broadcast, delivers nothing to any connection, and sends one error to
\* the sender alone.
C1_DeniedMutationOnlyErrors ==
    [][\A s \in Sockets, d \in MsgData :
          (socketData[s].open /\ ~socketData[s].canEdit /\ MutatingMessage(s, d))
          => /\ boardEvents' = boardEvents
             /\ tasks' = tasks
             /\ emitted' = {}
             /\ errors' = ErrorTo(s, "Edit permission denied")]_vars

\* A read-only connection was denied while both editors sat in its board room.
C1_Witness ==
    /\ errors = ErrorTo("s3", "Edit permission denied")
    /\ socketData["s3"].open /\ ~socketData["s3"].canEdit
    /\ \A r \in {"s1", "s2"} : BoardRoom("B1") \in rooms[r]
    /\ PageRoom("P1") \in rooms["s1"] \cap rooms["s3"]

\* The board event a delivered shape or legacy message was persisted as.
PersistedAs(m, row) ==
    IF m.ev = "canvas-event"
    THEN row.payload = m.data /\ row.type = EventType(m.data)
    ELSE row = [boardId |-> m.data.boardId, pageId |-> m.data.pageId,
                type |-> m.ev, payload |-> m.data]

\* C2: whenever a peer is delivered a shape:add, shape:update, shape:delete
\* or canvas-event, the board event of that mutation is already in the
\* board_events table.
C2_DeliveredMutationIsPersisted ==
    \A m \in emitted :
        m.ev \in ShapeEvents \cup {"canvas-event"}
        => \E i \in 1..Len(boardEvents) : PersistedAs(m, boardEvents[i])

\* A peer received a shape event and a legacy event can still be in flight.
C2_Witness ==
    /\ \E m \in emitted : m.ev \in ShapeEvents /\ m.to = "s2"
    /\ Len(boardEvents) = 1

\* Socket s is sent event ev by the step.
Receives(s, ev, data) == [to |-> s, ev |-> ev, data |-> data] \in emitted'

\* Exactly the members of room page:p other than sender get ev with data,
\* and nothing else is delivered.
ReachesPageRoom(p, sender, ev, data) ==
    /\ \A r \in Sockets :
            Receives(r, ev, data) <=> (PageRoom(p) \in rooms[r] /\ r # sender)
    /\ \A m \in emitted' : m.ev = ev /\ m.data = data

\* C3: the broadcast of a successful page-scoped mutation for page P sent by
\* connection c (a persisted shape or legacy event, or a page settings
\* update) reaches exactly the connections that are in room page:P when the
\* broadcast runs, except c, and each of them gets the mutation itself.
C3_PageBroadcastReachesExactlyTheRoom ==
    [][/\ \A t \in tasks :
             (Resume(t) /\ t.data.pageId # None)
             => ReachesPageRoom(t.data.pageId, t.sock, t.ev, Outgoing(t))
       /\ \A s \in Sockets, d \in MsgData :
             /\ socketData[s].open /\ socketData[s].canEdit /\ d.pageId # None
             /\ PageSettingsUpdate(s, d)
             => ReachesPageRoom(d.pageId, s, "page:settings:update", d)]_vars

\* A mutation for page P1 reached the peer on P1 while the sender was in the
\* room too and the third connection sat on another page of the same board.
C3_Witness ==
    /\ \E m \in emitted : m.ev = "shape:update" /\ m.data.pageId = "P1"
    /\ {m.to : m \in emitted} = {"s2"}
    /\ PageRoom("P1") \in rooms["s1"] \cap rooms["s2"]
    /\ PageRoom("P2") \in rooms["s3"]
    /\ BoardRoom("B1") \in rooms["s3"]

\* The board rooms and the page rooms a socket is in.
BoardRoomsOf(s) == {r \in rooms[s] : r[1] = "board"}
PageRoomsOf(s) == {r \in rooms[s] : r[1] = "page"}

\* C4: every open connection is in exactly one board room, the room of its
\* bound board, and in at most one page room, whatever page:switch messages
\* it has sent (a missing or empty pageId included).
C4_OneBoardRoomAtMostOnePageRoom ==
    \A s \in Sockets :
        socketData[s].open
        => /\ BoardRoomsOf(s) = {BoardRoom(socketData[s].boardId)}
           /\ Cardinality(PageRoomsOf(s)) <= 1

\* C5: a socket in room board:B is an open connection whose handshake named
\* B and carried either a bearer credential that verifies for an existing
\* user or, with no bearer credential, a share token whose link is bound to B.
C5_BoardRoomNeedsCredential ==
    \A s \in Sockets, b \in Boards \cup {"B9", None} :
        BoardRoom(b) \in rooms[s]
        => /\ socketData[s].open
           /\ auth[s].boardId = b
           /\ \/ /\ auth[s].token # None
                 /\ TokenVerifies(auth[s].token)
                 /\ DecodedUserId(auth[s].token) \in Users
              \/ /\ auth[s].token = None
                 /\ auth[s].shareToken \in DOMAIN ShareLinks
                 /\ ShareLinks[auth[s].shareToken].boardId = b

\* A connection sits in the room of board B2 on the strength of a share token.
C5_Witness ==
    /\ BoardRoom("B2") \in rooms[AuthSocket]
    /\ auth[AuthSocket].token = None
    /\ auth[AuthSocket].shareToken = "k_rw"

\* C6: when the insert of a mutation from an open editing connection fails,
\* the sender is sent an error, no peer is delivered anything, and the
\* connection stays open.
C6_InsertFailureReportedToSender ==
    [][\A t \in tasks :
          (socketData[t.sock].open /\ (InsertFail(t) \/ InsertFailExit(t)))
          => /\ \E e \in errors' : e.to = t.sock /\ e.ev = "error"
             /\ emitted' = {}
             /\ socketData'[t.sock].open]_vars

\* C7: a shape:add, shape:update, shape:delete or page:settings:update from
\* an editing connection with no page id in its payload sends 'Page ID
\* required' to the sender alone, persists nothing, suspends no handler and
\* delivers nothing.
C7_MissingPageIdOnlyErrors ==
    [][\A s \in Sockets, d \in MsgData :
          /\ socketData[s].open /\ socketData[s].canEdit /\ d.pageId = None
          /\ \/ \E e \in ShapeEvents : HandleShapeEvent(s, e, d)
             \/ PageSettingsUpdate(s, d)
          => /\ boardEvents' = boardEvents
             /\ tasks' = tasks
             /\ emitted' = {}
             /\ errors' = ErrorTo(s, "Page ID required")]_vars

\* An editor was told 'Page ID required' while a peer sat in its board room.
C7_Witness ==
    /\ errors = ErrorTo("s1", "Page ID required")
    /\ socketData["s1"].canEdit
    /\ BoardRoom("B1") \in rooms["s2"] \cap rooms["s3"]
    /\ boardEvents = <<>>

\* C8: a page:switch naming another board than the connection's bound board
\* sends 'Access denied' to the sender and leaves its rooms and its
\* socket.data (the tracked page id included) as they were.
C8_SwitchToOtherBoardChangesNothing ==
    [][\A d \in SwitchInputs :
          (PageSwitch(AuthSocket, d) /\ d.boardId # socketData[AuthSocket].boardId)
          => /\ rooms' = rooms
             /\ socketData' = socketData
             /\ errors' = ErrorTo(AuthSocket, "Access denied")]_vars

\* A connection of board B1 on page P1 was refused a switch.
C8_Witness ==
    /\ errors = ErrorTo(AuthSocket, "Access denied")
    /\ socketData[AuthSocket].boardId = "B1"
    /\ socketData[AuthSocket].pageId = "P1"
    /\ rooms[AuthSocket] = {BoardRoom("B1"), PageRoom("P1")}

Refused(s, msgs) ==
    /\ ~socketData'[s].open
    /\ rooms'[s] = {}
    /\ \E m \in msgs : errors' = ConnectError(s, m)

\* C10: on the bearer path a credential that does not verify is refused; a
\* verified credential of a missing user is refused as an authentication
\* failure whether or not the board exists; a verified credential of an
\* existing user is refused with 'Board not found' when the board is absent;
\* and 'Board not found' is sent for a verified, existing user only.
C10_BearerChecksInOrder ==
    [][\A a \in AuthInputs, dbUp \in BOOLEAN :
          (a.boardId # None /\ a.token # None /\ Handshake(AuthSocket, a, dbUp))
          => LET verified == TokenVerifies(a.token)
                 known == DecodedUserId(a.token) \in Users
             IN /\ ~verified => Refused(AuthSocket, {"Authentication failed"})
                /\ (verified /\ ~known)
                   => Refused(AuthSocket, IF dbUp THEN {"User not found"}
                                          ELSE {"Authentication failed"})
                /\ (verified /\ known /\ a.boardId \notin Boards)
                   => Refused(AuthSocket, IF dbUp THEN {"Board not found"}
                                          ELSE {"Authentication failed"})
                /\ errors' = ConnectError(AuthSocket, "Board not found")
                   => (verified /\ known /\ a.boardId \notin Boards)]_vars

\* A handshake was refused with 'Board not found'.
C10_Witness ==
    /\ errors = ConnectError(AuthSocket, "Board not found")
    /\ ~socketData[AuthSocket].open

\* The handshake was accepted: the connection as the middleware leaves it.
Established(s, a, u, ce) ==
    /\ socketData'[s] = [open |-> TRUE, userId |-> u, boardId |-> a.boardId,
                         pageId |-> a.pageId, canEdit |-> ce]
    /\ BoardRoom(a.boardId) \in rooms'[s]
    /\ errors' = {}

\* C11: a handshake with a board id, no bearer credential and a share token
\* is refused with 'Invalid share token' when no share link has the token or
\* the link belongs to another board; otherwise the connection is established
\* with the link's canEdit flag and no user id (no membership is consulted).
\* A share link lookup that throws refuses the handshake as well.
C11_ShareTokenPath ==
    [][\A a \in AuthInputs, dbUp \in BOOLEAN :
          /\ a.boardId # None /\ a.token = None /\ a.shareToken # None
          /\ Handshake(AuthSocket, a, dbUp)
          => IF ~dbUp
             THEN Refused(AuthSocket, {"Authentication failed"})
             ELSE IF \/ a.shareToken \notin DOMAIN ShareLinks
                     \/ ShareLinks[a.shareToken].boardId # a.boardId
             THEN Refused(AuthSocket, {"Invalid share token"})
             ELSE Established(AuthSocket, a, None,
                              ShareLinks[a.shareToken].canEdit)]_vars

\* A read-only link of board B1 opened a connection without a user id.
C11_Witness ==
    /\ socketData[AuthSocket].open
    /\ auth[AuthSocket].token = None
    /\ auth[AuthSocket].shareToken = "k_ro"
    /\ socketData[AuthSocket].boardId = "B1"
    /\ socketData[AuthSocket].userId = None
    /\ ~socketData[AuthSocket].canEdit

\* C12: a handshake that names a board id and carries neither a bearer
\* credential nor a share token is refused with 'Authentication required',
\* whether or not the database answers.
C12_NoCredentialIsRefused ==
    [][\A a \in AuthInputs, dbUp \in BOOLEAN :
          /\ a.boardId # None /\ a.token = None /\ a.shareToken = None
          /\ Handshake(AuthSocket, a, dbUp)
          => Refused(AuthSocket, {"Authentication required"})]_vars

\* A handshake was refused with 'Authentication required'.
C12_Witness ==
    /\ errors = ConnectError(AuthSocket, "Authentication required")
    /\ ~socketData[AuthSocket].open
    /\ rooms[AuthSocket] = {}

\* C13: no open connection comes from a handshake that carried both a
\* bearer credential and a share token.
C13_BothCredentialsNotEstablished ==
    \A s \in Sockets :
        socketData[s].open
        => ~(auth[s].token # None /\ auth[s].shareToken # None)

\* The bearer credential of a handshake belongs to an existing user who
\* neither owns the board nor has a membership row for it.
NonMember(token, b) ==
    /\ token # None /\ TokenVerifies(token)
    /\ DecodedUserId(token) \in Users
    /\ b \in Boards
    /\ BoardOwner[b] # DecodedUserId(token)
    /\ Role(DecodedUserId(token), b) = None

\* Socket s is an open connection of such a user.
NonMemberConnection(s) ==
    socketData[s].open /\ NonMember(auth[s].token, auth[s].boardId)

\* C14: the bearer handshake of an existing user who neither owns the board
\* nor is a member of it is accepted with canEdit false and joins the board
\* room; such a connection is delivered the broadcasts of the rooms it is
\* in, and every mutating message it sends is answered with 'Edit permission
\* denied' and nothing else.
C14_NonMemberJoinsReadOnly ==
    [][/\ \A s \in GuestSockets : \A a \in GuestClients(s) :
             (NonMember(a.token, a.boardId) /\ Handshake(s, a, TRUE))
             => Established(s, a, DecodedUserId(a.token), FALSE)
       /\ \A s \in GuestSockets : NonMemberConnection(s) =>
             /\ \A t \in tasks :
                   (Resume(t) /\ t.sock # s /\ TargetRoom(t) \in rooms[s])
                   => Receives(s, t.ev, Outgoing(t))
             /\ \A r \in GuestSockets \ {s}, d \in GuestMsgData :
                   /\ (AssetAdd(r, d) /\ socketData[r].canEdit)
                      => Receives(s, "asset:add", d)
                   /\ (/\ PageSettingsUpdate(r, d) /\ socketData[r].canEdit
                       /\ PageRoom(d.pageId) \in rooms[s])
                      => Receives(s, "page:settings:update", d)
             /\ \A d \in GuestMsgData :
                   MutatingMessage(s, d)
                   => /\ boardEvents' = boardEvents
                      /\ tasks' = tasks
                      /\ emitted' = {}
                      /\ errors' = ErrorTo(s, "Edit permission denied")]_vars

\* User u1 sits in the room of board B2, which it neither owns nor is a
\* member of, and was delivered a shape event of the owner.
C14_Witness ==
    /\ NonMemberConnection("s1")
    /\ socketData["s1"].userId = "u1"
    /\ ~socketData["s1"].canEdit
    /\ BoardRoom("B2") \in rooms["s1"]
    /\ \E m \in emitted : m.to = "s1" /\ m.ev \in ShapeEvents
    /\ Len(boardEvents) = 1

\* C15: a handshake that is refused (no board id, no credential, a
\* credential that does not verify or names no user, a share token of no
\* link or of another board, a missing board, a lookup that throws) leaves
\* the socket in no room and without socket.data, appends no board event and
\* suspends no handler.
C15_RefusedHandshakeHasNoEffect ==
    [][\A a \in AuthInputs, dbUp \in BOOLEAN :
          (Handshake(AuthSocket, a, dbUp) /\ errors' # {})
          => /\ rooms'[AuthSocket] = {}
             /\ socketData'[AuthSocket] = NoData
             /\ auth'[AuthSocket] = NoAuth
             /\ boardEvents' = boardEvents
             /\ tasks' = tasks
             /\ emitted' = {}]_vars

\* A share token of no link was refused; the socket has no room and no data.
C15_Witness ==
    /\ errors = ConnectError(AuthSocket, "Invalid share token")
    /\ rooms[AuthSocket] = {}
    /\ socketData[AuthSocket] = NoData
    /\ boardEvents = <<>>

\* The user of the permission question owns the board; the user's role.
PermIsOwner == perm.ownerId = perm.userId
PermRole == perm.memberships[perm.userId]

\* C16: the edit capability the handshake computes is true exactly when the
\* user owns the board or the user's membership role is OWNER or EDITOR, and
\* false for role VIEWER and for no membership of a user who is not the
\* owner; the REST routes compute the same value from the same ownership
\* and role.
C16_CanEditByOwnershipAndRole ==
    /\ perm.socket.done
       => /\ perm.socket.canEdit
             <=> (PermIsOwner \/ PermRole \in {"OWNER", "EDITOR"})
          /\ (~PermIsOwner /\ PermRole \in {"VIEWER", None})
             => ~perm.socket.canEdit
    /\ perm.rest.done
       => (perm.rest.canEdit
             <=> (PermIsOwner \/ PermRole \in {"OWNER", "EDITOR"}))
    /\ (perm.socket.done /\ perm.rest.done)
       => perm.socket.canEdit = perm.rest.canEdit

\* Both sides answered for an EDITOR who is not the owner, while the owner
\* holds a VIEWER membership row.
C16_Witness ==
    /\ perm.socket.done /\ perm.rest.done
    /\ ~PermIsOwner /\ PermRole = "EDITOR"
    /\ perm.memberships[perm.ownerId] = "VIEWER"
    /\ perm.socket.canEdit /\ perm.rest.canEdit

\* C17: whenever a peer is delivered a page:settings:update or an asset:add,
\* a board event for that message (its type the message name, its payload
\* the message) is already in the board_events table.
C17_SettingsAndAssetsPersisted ==
    \A m \in emitted :
        m.ev \in {"page:settings:update", "asset:add"}
        => \E i \in 1..Len(boardEvents) :
              /\ boardEvents[i].type = m.ev
              /\ boardEvents[i].payload = m.data

\* The room a persisted message with payload d goes to: its page room when
\* it names a page, else its board room.
RoomByPageId(d) ==
    IF d.pageId # None THEN PageRoom(d.pageId) ELSE BoardRoom(d.boardId)

\* C18: a canvas-event from a connection without canEdit is denied like a
\* shape event; from an editing connection it is first persisted, under its
\* board id and its page id (null when it names no page), and only then
\* broadcast, to exactly the members other than the sender of page:<pageId>
\* when it names a page and of board:<boardId> when it names none.
C18_LegacyEventLikeShapeEvents ==
    [][/\ \A s \in Sockets, d \in MsgData :
             (socketData[s].open /\ CanvasEvent(s, d))
             => /\ boardEvents' = boardEvents
                /\ emitted' = {}
                /\ IF socketData[s].canEdit
                   THEN /\ tasks' = tasks \cup {Suspended(s, "canvas-event", d)}
                        /\ errors' = {}
                   ELSE /\ tasks' = tasks
                        /\ errors' = ErrorTo(s, "Edit permission denied")
       /\ \A t \in tasks :
             t.ev = "canvas-event"
             => /\ InsertOk(t)
                   => /\ Len(boardEvents') = Len(boardEvents) + 1
                      /\ boardEvents'[Len(boardEvents')].boardId = t.data.boardId
                      /\ boardEvents'[Len(boardEvents')].pageId = t.data.pageId
                      /\ boardEvents'[Len(boardEvents')].payload
                            = WrappedEvent(t.data)
                      /\ emitted' = {}
                /\ Resume(t)
                   => /\ \E i \in 1..Len(boardEvents) :
                            /\ boardEvents[i].boardId = t.data.boardId
                            /\ boardEvents[i].pageId = t.data.pageId
                            /\ boardEvents[i].payload = WrappedEvent(t.data)
                      /\ \A r \in Sockets :
                            Receives(r, "canvas-event", WrappedEvent(t.data))
                            <=> (RoomByPageId(t.data) \in rooms[r] /\ r # t.sock)
                      /\ \A m \in emitted' :
                            /\ m.ev = "canvas-event"
                            /\ m.data = WrappedEvent(t.data)]_vars

\* A legacy event without a page id, stored with a null page id, reached
\* both other members of the board room, one of them on another page.
C18_Witness ==
    /\ \E m \in emitted : m.ev = "canvas-event"
    /\ {m.to : m \in emitted} = {"s2", "s3"}
    /\ Len(boardEvents) = 1
    /\ boardEvents[1].pageId = None
    /\ PageRoom("P1") \in rooms["s2"]
    /\ PageRoom("P2") \in rooms["s3"]

\* Socket s sends a mutating message named ev with payload d that passes the
\* permission check and the page id check.
AcceptedMutation(s, ev, d) ==
    /\ socketData[s].open /\ socketData[s].canEdit
    /\ \/ ev \in ShapeEvents /\ d.pageId # None /\ HandleShapeEvent(s, ev, d)
       \/ /\ ev = "page:settings:update" /\ d.pageId # None
          /\ PageSettingsUpdate(s, d)
       \/ ev = "asset:add" /\ AssetAdd(s, d)
       \/ ev = "canvas-event" /\ CanvasEvent(s, d)

\* C19: every mutating message that passes the checks gets exactly one board
\* event, appended at the end of the log, whose type is the message name and
\* whose payload is the message payload; the events already in the log are
\* neither changed nor removed by any step.
C19_OneEventPerMutation ==
    [][/\ Len(boardEvents') >= Len(boardEvents)
       /\ SubSeq(boardEvents', 1, Len(boardEvents)) = boardEvents
       /\ \A t \in tasks :
             InsertOk(t)
             => boardEvents' = Append(boardEvents,
                    [boardId |-> t.data.boardId, pageId |-> t.data.pageId,
                     type |-> t.ev, payload |-> t.data])
       /\ \A s \in Sockets, d \in MsgData :
             \A ev \in ShapeEvents \cup
                       {"page:settings:update", "asset:add", "canvas-event"} :
                AcceptedMutation(s, ev, d)
                => \/ Suspended(s, ev, d) \in tasks'
                   \/ /\ Len(boardEvents') = Len(boardEvents) + 1
                      /\ boardEvents'[Len(boardEvents')].type = ev
                      /\ boardEvents'[Len(boardEvents')].payload = d]_vars

\* C20: when a handler resumes after its insert and its sender has
\* disconnected meanwhile, the board event is still in the log and every
\* member of the target room gets the broadcast; the disconnect itself
\* leaves the log and the suspended handlers as they were.
C20_BroadcastSurvivesSenderDisconnect ==
    [][/\ \A t \in tasks :
             (Resume(t) /\ ~socketData[t.sock].open)
             => /\ boardEvents' = boardEvents
                /\ \E i \in 1..Len(boardEvents) :
                      /\ boardEvents[i].boardId = t.data.boardId
                      /\ boardEvents[i].pageId = t.data.pageId
                /\ \A r \in Sockets :
                      RoomByPageId(t.data) \in rooms[r]
                      => Receives(r, t.ev, Outgoing(t))
       /\ \A s \in Sockets :
             Disconnect(s)
             => /\ boardEvents' = boardEvents
                /\ tasks' = tasks]_vars

\* The sender s1 is gone, its event is in the log, and the peer on page P1
\* was delivered the shape event.
C20_Witness ==
    /\ ~socketData["s1"].open
    /\ \E m \in emitted : m.ev \in ShapeEvents /\ m.to = "s2"
    /\ Len(boardEvents) = 1
    /\ boardEvents[1].pageId = "P1"
    /\ PageRoom("P1") \in rooms["s2"]
    /\ ~socketData["s3"].open

\* C21: a presence:cursor message appends no board event and suspends no
\* handler, and it is delivered to exactly the members other than the
\* sender of the page room of the sender's tracked page id.
C21_CursorGoesToTrackedPageRoom ==
    [][\A s \in PresenceSockets, d \in CursorData :
          (d.pageId # None /\ PresenceCursor(s, d))
          => /\ boardEvents' = boardEvents
             /\ tasks' = tasks
             /\ \A r \in Sockets :
                   (\E m \in emitted' : m.to = r)
                   <=> /\ r # s
                       /\ socketData[s].pageId # None
                       /\ PageRoom(socketData[s].pageId) \in rooms[r]]_vars

\* C22: a sweep that finds a cursor older than the staleness threshold
\* removes it and sends a removal notification.
C22_StaleEntryRemovedWithNotice ==
    [][\A r \in PresenceSockets :
          (Sweep(r) /\ Stale(r) # {})
          => /\ DOMAIN cursors'[r] = DOMAIN cursors[r] \ Stale(r)
             /\ emitted' # {}]_vars

\* C23: a delete request never takes the last page of a board: a board with
\* a page still has one after the delete of the request has run.
C23_DeleteKeepsOnePage ==
    [][\A r \in Requests :
          (DeleteCommit(r) /\ boardPages # {}) => boardPages' # {}]_vars

\* C30: a page-list request that creates the default page leaves the board
\* with exactly one page, and no two pages with the same index.
C30_OneDefaultPage ==
    [][\A r \in Requests :
          ListCreate(r)
          => /\ Cardinality(boardPages') = 1
             /\ \A p, q \in boardPages' : p.index = q.index => p = q]_vars

\* The room is the board room of board b or the page room of one of its pages.
RoomOfBoard(room, b) ==
    \/ room = BoardRoom(b)
    \/ \E p \in Pages : room = PageRoom(p) /\ PageBoard[p] = b

\* C24: the board event appended for a message of an open connection carries
\* the connection's bound board id, and what the message makes the server
\* deliver goes to a room of that board only, whatever board id and page id
\* the payload names.
C24_MutationsStayOnBoundBoard ==
    [][/\ \A t \in tasks :
             socketData[t.sock].open
             => /\ InsertOk(t)
                   => boardEvents'[Len(boardEvents')].boardId
                         = socketData[t.sock].boardId
                /\ (Resume(t) /\ emitted' # {})
                   => RoomOfBoard(RoomByPageId(t.data),
                                  socketData[t.sock].boardId)
       /\ \A s \in CrossSockets, d \in CrossMsgData :
             /\ (AssetAdd(s, d) /\ emitted' # {})
                => RoomOfBoard(BoardRoom(d.boardId), socketData[s].boardId)
             /\ (PageSettingsUpdate(s, d) /\ emitted' # {})
                => RoomOfBoard(PageRoom(d.pageId), socketData[s].boardId)]_vars

\* C25: every page room an open connection is in is the room of a page of
\* its bound board.
C25_PageRoomsOfBoundBoard ==
    \A s \in Sockets :
        socketData[s].open
        => \A p \in Pages :
              PageRoom(p) \in rooms[s] => PageBoard[p] = socketData[s].boardId

\* C27: as long as a connection stays open, whatever messages it and the
\* other connections send, its canEdit and its bound board id stay what the
\* handshake made them.
C27_CanEditAndBoardFixed ==
    [][\A s \in Sockets :
          (socketData[s].open /\ socketData'[s].open)
          => /\ socketData'[s].canEdit = socketData[s].canEdit
             /\ socketData'[s].boardId = socketData[s].boardId
             /\ socketData'[s].userId = socketData[s].userId]_vars

\* The owner of B1 has had an event persisted and has then switched page; it
\* is still an editor bound to B1.
C27_Witness ==
    /\ lastSwitch.sock = "s1"
    /\ Len(boardEvents) = 1
    /\ socketData["s1"].open
    /\ socketData["s1"].canEdit
    /\ socketData["s1"].boardId = "B1"
    /\ socketData["s1"].pageId = "P3"

\* The position in the log of the board event of a delivered shape event.
LogIndex(m) ==
    CHOOSE i \in 1..Len(boardEvents) :
        boardEvents[i].type = m.ev /\ boardEvents[i].payload = m.data

\* C26: a peer that is delivered two shape events for the same board and
\* page, one right after the other, gets them in the order of their board
\* events in the log.
C26_DeliveryFollowsLogOrder ==
    [][\A t \in tasks :
          Resume(t)
          => \A m \in emitted, n \in emitted' :
                (m.to = n.to /\ m.ev # n.ev) => LogIndex(m) < LogIndex(n)]_vars

\* The page rooms a connection should be in for the page id the server
\* tracks for it.
TrackedPageRooms(k) ==
    IF socketData[k].pageId = None THEN {} ELSE {PageRoom(socketData[k].pageId)}

\* C28: once the server has handled every page:switch the SocketManager
\* emitted on its connected socket (rejected ones and reconnections
\* included), the manager's currentPageId is the page id the server tracks
\* for the connection, which is in that page's room and no other.
C28_ClientAndServerTrackSamePage ==
    \A k \in ClientSockets :
        (/\ manager.socket = k
         /\ Connected(k)
         /\ clientSockets[k].sendBuffer = <<>>)
        => /\ manager.currentPageId = socketData[k].pageId
           /\ PageRoomsOf(k) = TrackedPageRooms(k)

\* C29: every socket the client created and has not closed is the one the
\* SocketManager refers to, so at most one is open at any time.
C29_OneOwnedSocket ==
    \A k \in ClientSockets :
        clientSockets[k].state = "live" => manager.socket = k
====
